---------------------------- MODULE Spec2Model ----------------------------
(***************************************************************************)
(* Model of LagrangeDemo.cpp: the key/scroll callbacks, the main loop      *)
(* (clock, fixed-step n-body integrator, camera, per-body presentation     *)
(* transform) and the circular-buffer trail recorder.                      *)
(*                                                                         *)
(* Numbers.  C++ floating-point values are modelled as fixed-point         *)
(* integers: a double d is the integer d * DSCALE, a float f the integer   *)
(* f * FSCALE, each operation rounding its exact result to that grid.      *)
(* Converting a double to a float (glm::vec3(dvec3)) rounds to the coarser *)
(* grid.  NaN is a reserved integer that every operation propagates.       *)
(* Vectors are triples <<x, y, z>>.                                        *)
(***************************************************************************)
EXTENDS Integers, Sequences, FiniteSets, TLC

(***************************************************************************)
(* Scalar arithmetic                                                       *)
(***************************************************************************)
\* units of a double per world unit
DSCALE == 200
\* units of a float per world unit
FSCALE == 100
\* units of a base-2 logarithm (std::log2 / std::exp2 work on this grid)
LSCALE == 256
\* the value of 0.0/0.0, of normalize(0) and of everything computed from them
NaN == -2000000000

Abs(a) == IF a < 0 THEN -a ELSE a

Max2(a, b) == IF a >= b THEN a ELSE b

\* a / b rounded to the nearest integer, b > 0
RDiv(a, b) == IF a >= 0 THEN (2 * a + b) \div (2 * b)
                        ELSE -((2 * (-a) + b) \div (2 * b))

Add(a, b) == IF a = NaN \/ b = NaN THEN NaN ELSE a + b

Sub(a, b) == IF a = NaN \/ b = NaN THEN NaN ELSE a - b

\* a * b for fixed-point a, b on the grid s
Mul(a, b, s) == IF a = NaN \/ b = NaN THEN NaN ELSE RDiv(a * b, s)

\* a / n for a plain (unscaled) positive number n
DivN(a, n) == IF a = NaN THEN NaN ELSE RDiv(a, n)

\* a > b as C++ compares floats: false when either side is NaN
Gt(a, b) == a # NaN /\ b # NaN /\ a > b

RECURSIVE SqrtIter(_, _, _)
SqrtIter(n, lo, hi) ==
    IF lo >= hi THEN lo
    ELSE LET mid == (lo + hi + 1) \div 2
         IN  IF mid * mid <= n THEN SqrtIter(n, mid, hi)
                               ELSE SqrtIter(n, lo, mid - 1)

\* floor of the square root of n, 0 <= n < 2^31
ISqrt(n) == SqrtIter(n, 0, 46340)

(***************************************************************************)
(* Vectors (glm::vec3 / glm::dvec3)                                        *)
(***************************************************************************)
Vec0 == <<0, 0, 0>>

VecNaN == <<NaN, NaN, NaN>>

HasNaN(v) == v[1] = NaN \/ v[2] = NaN \/ v[3] = NaN

VAdd(a, b) == <<Add(a[1], b[1]), Add(a[2], b[2]), Add(a[3], b[3])>>

VSub(a, b) == <<Sub(a[1], b[1]), Sub(a[2], b[2]), Sub(a[3], b[3])>>

\* v * k for a fixed-point scalar k on the grid s
VScale(v, k, s) == <<Mul(v[1], k, s), Mul(v[2], k, s), Mul(v[3], k, s)>>

\* v / n for a plain positive number n
VDivN(v, n) == <<DivN(v[1], n), DivN(v[2], n), DivN(v[3], n)>>

\* glm::length: computed on a coarser grid when the squares would overflow
Length(v) ==
    IF HasNaN(v) THEN NaN
    ELSE LET m == Max2(Abs(v[1]), Max2(Abs(v[2]), Abs(v[3])))
             k == (m \div 20000) + 1
             x == RDiv(v[1], k)
             y == RDiv(v[2], k)
             z == RDiv(v[3], k)
         IN  k * ISqrt(x * x + y * y + z * z)

\* glm::normalize on the grid s: v * inversesqrt(dot(v, v)); 0 * inf = NaN
Normalize(v, s) ==
    LET len == Length(v)
    IN  IF len = NaN \/ len = 0 THEN VecNaN
        ELSE <<RDiv(v[1] * s, len), RDiv(v[2] * s, len), RDiv(v[3] * s, len)>>

\* glm::cross of a (grid s) with the unit axis (0, 1, 0)
CrossUp(a) ==
    IF HasNaN(a) THEN VecNaN ELSE <<-a[3], 0, a[1]>>

\* glm::vec3(dvec3): narrowing of a double vector to a float vector
ToFloat(d) == IF d = NaN THEN NaN ELSE RDiv(d * FSCALE, DSCALE)

VToFloat(v) == <<ToFloat(v[1]), ToFloat(v[2]), ToFloat(v[3])>>

(***************************************************************************)
(* std::log2 and std::exp2 on floats                                       *)
(***************************************************************************)
RECURSIVE Pow2(_)
Pow2(n) == IF n <= 0 THEN 1 ELSE 2 * Pow2(n - 1)

\* largest n with 2^n * FSCALE <= x, for x >= FSCALE
RECURSIVE ExpUp(_, _)
ExpUp(x, n) == IF Pow2(n + 1) * FSCALE <= x THEN ExpUp(x, n + 1) ELSE n

\* smallest n with x * 2^n >= FSCALE, for 0 < x < FSCALE
RECURSIVE ExpDown(_, _)
ExpDown(x, n) == IF x * Pow2(n) >= FSCALE THEN n ELSE ExpDown(x, n + 1)

\* fractional bits of log2 of the mantissa m / 4096 in [1, 2), by squaring
RECURSIVE LogBits(_, _, _)
LogBits(m, bit, acc) ==
    IF bit = 0 THEN acc
    ELSE LET sq == (m * m) \div 4096
         IN  IF sq >= 8192 THEN LogBits(sq \div 2, bit \div 2, acc + bit)
                           ELSE LogBits(sq, bit \div 2, acc)

\* std::log2 of a float x, on the LSCALE grid
Log2(x) ==
    IF x = NaN \/ x <= 0 THEN NaN
    ELSE IF x >= FSCALE
         THEN LET n == ExpUp(x, 0)
                  m == (x * 4096) \div (Pow2(n) * FSCALE)
              IN  n * LSCALE + LogBits(m, LSCALE \div 2, 0)
         ELSE LET n == ExpDown(x, 1)
                  m == (x * Pow2(n) * 4096) \div FSCALE
              IN  (-n) * LSCALE + LogBits(m, LSCALE \div 2, 0)

\* 4096 * 2^(1/2), 2^(1/4), ..., 2^(1/256)
Roots == <<5793, 4871, 4467, 4277, 4185, 4140, 4118, 4107>>

\* 4096 * 2^(f / LSCALE) for 0 <= f < LSCALE
RECURSIVE ExpBits(_, _, _, _)
ExpBits(f, bit, k, acc) ==
    IF bit = 0 THEN acc
    ELSE IF f >= bit
         THEN ExpBits(f - bit, bit \div 2, k + 1, (acc * Roots[k]) \div 4096)
         ELSE ExpBits(f, bit \div 2, k + 1, acc)

\* std::exp2 of l (LSCALE grid), as a float
Exp2(l) ==
    IF l = NaN THEN NaN
    ELSE LET n == l \div LSCALE
             f == l % LSCALE
             m == ExpBits(f, LSCALE \div 2, 1, 4096)
         IN  IF n >= 0 THEN RDiv(m * Pow2(n) * FSCALE, 4096)
                       ELSE RDiv(m * FSCALE, 4096 * Pow2(-n))

(***************************************************************************)
(* Program constants and the bounds of the model                           *)
(***************************************************************************)
\* capacity of a trail's circular buffer (1000 in the source)
MAX_LINE_PATH_SEGMENTS == 2
\* number of bodies main() registers (10 in the source)
NumBodies == 3
\* frames the main loop runs before the model stops it
MaxFrames == 4
\* input events delivered before the model stops delivering them
MaxEvents == 5
\* zoom levels (20 in the source, zoom_level starting at 10)
NUM_ZOOM_LEVELS == 4
\* MIN_ZOOM, FOCUSED_CAMERA_DIST and LINE_WIDTH, as floats / plain divisor
MIN_ZOOM == 800 * FSCALE
FOCUSED_CAMERA_DIST == 25 * FSCALE
LINE_WIDTH == 500
\* clock ticks per second: physics_step (1/300 s) is 2 ticks
TICKS_PER_SECOND == 600
physics_step == TICKS_PER_SECOND \div 300
\* the 0.3 s clamp on frame_time
MAX_FRAME_TIME == (3 * TICKS_PER_SECOND) \div 10
\* wall time one loop iteration may take, in ticks
ElapsedTimes == {3}
\* gravitational_constant = 6 * 10^0
gravitational_constant == 6

Bodies == 0 .. (NumBodies - 1)

Slots == 0 .. (MAX_LINE_PATH_SEGMENTS - 1)

RENDER_TO_SCALE == "RENDER_TO_SCALE"

RENDER_MINIFIED == "RENDER_MINIFIED"

\* key events: a press of each key key_callback reacts to, and a release
KeyEvents ==
    {<<k, "PRESS">> : k \in {"ESCAPE", "LEFT_CONTROL", "RIGHT_CONTROL", "O", "SPACE"}}
    \cup {<<"SPACE", "RELEASE">>}

\* yoffset of a scroll event
Offsets == {-1, 0, 1}

(***************************************************************************)
(* Construction (create_line_path, create_celestial_body, main)            *)
(***************************************************************************)
ZeroLine == <<Vec0, Vec0>>

\* calloc'ed LinePath: zeroed buffer, path_start = num_segments = 0
create_line_path ==
    [lines |-> [k \in Slots |-> ZeroLine], path_start |-> 0, num_segments |-> 0]

\* float -> double of a parameter passed as float
FromFloat(f) == (f * DSCALE) \div FSCALE

create_celestial_body(position, velocity, mass, size, msize, mdist, anchor) ==
    [position |-> position, velocity |-> velocity,
     mass |-> FromFloat(mass), size |-> FromFloat(size),
     minified_dist_scale |-> mdist, minified_size_scale |-> msize,
     anchor |-> anchor]

\* std::sqrt((gravitational_constant * M) / length(a - b)), a double
OrbitalVelocityMag(M, a, b) ==
    ISqrt(RDiv(gravitational_constant * M * DSCALE, Length(VSub(a, b))) * DSCALE)

\* the bodies main() creates, scaled down to the grid: a heavy sun, a planet
\* anchored to it, and two light bodies anchored to the planet
SunBody ==
    create_celestial_body(Vec0, Vec0, 4000 * FSCALE, 2 * FSCALE,
                          2 * DSCALE, DSCALE, -1)

EarthBody0 ==
    create_celestial_body(<<10 * DSCALE, 0, 0>>, <<0, 0, DSCALE>>,
                          10 * FSCALE, FSCALE \div 2,
                          4 * DSCALE, DSCALE \div 2, 0)

MoonBody0 ==
    create_celestial_body(<<11 * DSCALE, 0, 0>>, <<0, 0, DSCALE>>,
                          FSCALE, FSCALE \div 4,
                          4 * DSCALE, 3 * DSCALE, 1)

Lagrange2Body0 ==
    create_celestial_body(<<12 * DSCALE, 0, 0>>, <<0, 0, DSCALE>>,
                          FSCALE \div 50, FSCALE \div 4,
                          4 * DSCALE, 2 * DSCALE, 1)

\* velocity *= orbital_velocity_mag
WithOrbit(c, mag) == [c EXCEPT !.velocity = VScale(c.velocity, mag, DSCALE)]

EarthBody ==
    WithOrbit(EarthBody0,
              OrbitalVelocityMag(SunBody.mass, SunBody.position, EarthBody0.position))

MoonBody ==
    WithOrbit(MoonBody0,
              OrbitalVelocityMag(EarthBody0.mass, EarthBody0.position, MoonBody0.position)
              + OrbitalVelocityMag(SunBody.mass, SunBody.position, MoonBody0.position))

Lagrange2Body ==
    WithOrbit(Lagrange2Body0,
              OrbitalVelocityMag(EarthBody0.mass, EarthBody0.position, Lagrange2Body0.position)
              + OrbitalVelocityMag(SunBody.mass, SunBody.position, Lagrange2Body0.position))

BodyTable == <<SunBody, EarthBody, MoonBody, Lagrange2Body, Lagrange2Body>>

(***************************************************************************)
(* Integrator (main, the physics loop)                                     *)
(***************************************************************************)
\* 1 / epsilon for epsilon = 0.000001, in squared double units
EpsilonInv == 1000000 \div (DSCALE * DSCALE)

\* <<quotient, remainder>> of a * b by q, without forming the product
RECURSIVE MulDivMod(_, _, _)
MulDivMod(a, b, q) ==
    IF b = 0 THEN <<0, 0>>
    ELSE LET h == MulDivMod(a, b \div 2, q)
             t == 2 * h[2] + a * (b % 2)
         IN  <<2 * h[1] + (t \div q), t % q>>

\* an acceleration that grows with the body's own mass instead of the other's
GravityAccelOwnMass(m_i, m_j, distance_i_j) ==
    IF distance_i_j = NaN \/ m_i = 0 THEN NaN
    ELSE MulDivMod(gravitational_constant * m_i * DSCALE, DSCALE * EpsilonInv,
                   EpsilonInv * distance_i_j * distance_i_j + 1)[1]

\* gravity_force * (1.0f / m_i), gravity_force = G * m_i * m_j / (distance^2 + epsilon):
\* the acceleration of c_i towards c_j; 0 * inf = NaN for a massless c_i
GravityAccel(m_i, m_j, distance_i_j) ==
    IF distance_i_j = NaN \/ m_i = 0 THEN NaN
    ELSE MulDivMod(gravitational_constant * m_j * DSCALE, DSCALE * EpsilonInv,
                   EpsilonInv * distance_i_j * distance_i_j + 1)[1]

\* x * delta_time, delta_time = physics_step
TimesDt(x) == DivN(IF x = NaN THEN NaN ELSE x * physics_step, TICKS_PER_SECOND)

\* the velocity c_i gains from c_j in one step (lines 652-657)
VelocityGain(c_i, c_j) ==
    LET distance_i_j == Length(VSub(c_i.position, c_j.position))
        accel == GravityAccel(c_i.mass, c_j.mass, distance_i_j)
        n == Normalize(VSub(c_j.position, c_i.position), DSCALE)
    IN  <<TimesDt(Mul(n[1], accel, DSCALE)),
          TimesDt(Mul(n[2], accel, DSCALE)),
          TimesDt(Mul(n[3], accel, DSCALE))>>

\* velocity of body i after the inner loop over j = from .. n - 1, j # i
RECURSIVE AccumulateVelocity(_, _, _, _)
AccumulateVelocity(cb, i, from, v) ==
    IF from \notin DOMAIN cb THEN v
    ELSE IF from = i THEN AccumulateVelocity(cb, i, from + 1, v)
    ELSE AccumulateVelocity(cb, i, from + 1, VAdd(v, VelocityGain(cb[i], cb[from])))

\* a position advanced by the velocity the body had before the step
MovedByOldVelocity(c, v) ==
    [c EXCEPT !.velocity = v,
              !.position = VAdd(c.position,
                                <<TimesDt(c.velocity[1]), TimesDt(c.velocity[2]),
                                  TimesDt(c.velocity[3])>>)]

\* body i after the position loop: position += velocity * delta_time
Moved(c, v) ==
    [c EXCEPT !.velocity = v,
              !.position = VAdd(c.position,
                                <<TimesDt(v[1]), TimesDt(v[2]), TimesDt(v[3])>>)]

\* bodies i .. n - 1 after one fixed step of the registry cb
RECURSIVE SteppedFrom(_, _)
SteppedFrom(cb, i) ==
    LET c == Moved(cb[i], AccumulateVelocity(cb, i, 0, cb[i].velocity))
    IN  IF (i + 1) \notin DOMAIN cb THEN (i :> c)
        ELSE (i :> c) @@ SteppedFrom(cb, i + 1)

\* a step that moves each body as soon as its velocity is known, so that the
\* bodies after it see its new position
RECURSIVE InPlaceFrom(_, _)
InPlaceFrom(cb, i) ==
    IF i \notin DOMAIN cb THEN cb
    ELSE InPlaceFrom([cb EXCEPT ![i] =
                         Moved(cb[i], AccumulateVelocity(cb, i, 0, cb[i].velocity))],
                     i + 1)

PhysicsStepInPlace(cb) == InPlaceFrom(cb, 0)

\* one fixed step: every velocity from the pre-step positions, then every position
PhysicsStep(cb) == SteppedFrom(cb, 0)

\* one test of the loop condition and, when it holds, one pass of the loop body:
\* while (physics_accumulator >= physics_step) { step; accumulator -= step }
LoopPass(s) ==
    IF s.acc >= physics_step
    THEN [cb |-> PhysicsStep(s.cb), acc |-> s.acc - physics_step, steps |-> s.steps + 1]
    ELSE s

\* 2^k passes of the loop
RECURSIVE LoopPasses(_, _)
LoopPasses(s, k) ==
    IF k = 0 THEN LoopPass(s)
    ELSE IF s.acc < physics_step THEN s
    ELSE LoopPasses(LoopPasses(s, k - 1), k - 1)

\* the while loop run until its condition fails: the accumulator holds at most
\* physics_step + MAX_FRAME_TIME on entry, which 2^7 passes exhaust
Drain(cb, acc) == LoopPasses([cb |-> cb, acc |-> acc, steps |-> 0], 7)

VARIABLES
    rendering_mode,            \* GlobalState.rendering_mode
    celestial_bodies,          \* GlobalState.celestial_bodies[0 .. num - 1]
    camera_target,             \* GlobalState.camera_target, -1 = free camera
    camera_pos,                \* GlobalState.camera_pos
    focused_camera_distance,   \* GlobalState.focused_camera_distance
    zoom_level,                \* GlobalState.zoom_level
    enable_orbit_rendering,    \* GlobalState.enable_orbit_rendering
    path_taken,                \* each body's LinePath
    physics_accumulator,       \* main's physics_accumulator, in ticks
    last_time,                 \* main's last_time, in ticks
    now,                       \* glfwGetTime(), in ticks
    should_close,              \* the window's close flag
    accepted,                  \* per body: the Lines appended since the last reset, and under what
    num_frames,                \* loop iterations so far
    num_events,                \* input events delivered so far
    rendered,                  \* per body: the model matrix and the position recorded last frame
    last_op                    \* the operation that produced this state

vars == <<rendering_mode, celestial_bodies, camera_target, camera_pos,
          focused_camera_distance, zoom_level, enable_orbit_rendering,
          path_taken, physics_accumulator, last_time, now, should_close,
          accepted, num_frames, num_events, rendered, last_op>>

Init ==
    /\ rendering_mode = RENDER_MINIFIED
    /\ celestial_bodies = [i \in Bodies |-> BodyTable[i + 1]]
    /\ camera_target = -1
    /\ camera_pos = Vec0
    /\ focused_camera_distance = FOCUSED_CAMERA_DIST
    /\ zoom_level = NUM_ZOOM_LEVELS \div 2
    /\ enable_orbit_rendering = FALSE
    /\ path_taken = [i \in Bodies |-> create_line_path]
    /\ physics_accumulator = 0
    /\ last_time = 0
    /\ now = 0
    /\ should_close = FALSE
    /\ accepted = [i \in Bodies |-> <<>>]
    /\ num_frames = 0
    /\ num_events = 0
    /\ rendered = [i \in Bodies |-> [translation |-> Vec0, scale |-> 0, recorded |-> Vec0]]
    /\ last_op = [op |-> "main"]

(***************************************************************************)
(* Trail recorder (append_to_line_path, update_line_path, linearization)   *)
(***************************************************************************)
\* a writer that always overwrites the oldest slot
NextIndexAtStart(lp) == lp.path_start

\* the slot the next segment goes to
NextIndex(lp) == (lp.path_start + lp.num_segments) % MAX_LINE_PATH_SEGMENTS

\* index_bef: the slot before it, wrapping to the last slot
IndexBefore(lp) ==
    IF NextIndex(lp) = 0 THEN MAX_LINE_PATH_SEGMENTS - 1 ELSE NextIndex(lp) - 1

\* the Line append_to_line_path builds from pos, the last Line <<o0, o1>> and width
NewLine(pos, o0, o1, width) ==
    LET orig == VAdd(VDivN(VSub(o0, o1), 2), o1)
        dir  == VSub(pos, orig)
        perp == CrossUp(Normalize(dir, FSCALE))
        half == VScale(VDivN(perp, 2), width, FSCALE)
    IN  <<VAdd(pos, half), VSub(pos, half)>>

\* an append without the saturation of lines 239-242
append_to_line_path_unbounded(lp, pos, o0, o1, width) ==
    [lines |-> [lp.lines EXCEPT ![NextIndex(lp)] = NewLine(pos, o0, o1, width)],
     num_segments |-> lp.num_segments + 1,
     path_start |-> lp.path_start]

\* an append that moves path_start on every call, full buffer or not
append_to_line_path_advancing(lp, pos, o0, o1, width) ==
    LET index == NextIndex(lp)
        lines == [lp.lines EXCEPT ![index] = NewLine(pos, o0, o1, width)]
    IN  [lines |-> lines,
         num_segments |-> IF lp.num_segments + 1 > MAX_LINE_PATH_SEGMENTS
                          THEN MAX_LINE_PATH_SEGMENTS ELSE lp.num_segments + 1,
         path_start |-> (lp.path_start + 1) % MAX_LINE_PATH_SEGMENTS]

append_to_line_path(lp, pos, o0, o1, width) ==
    LET index == NextIndex(lp)
        lines == [lp.lines EXCEPT ![index] = NewLine(pos, o0, o1, width)]
    IN  IF lp.num_segments + 1 > MAX_LINE_PATH_SEGMENTS
        THEN [lines |-> lines,
              num_segments |-> MAX_LINE_PATH_SEGMENTS,
              path_start |-> (lp.path_start + 1) % MAX_LINE_PATH_SEGMENTS]
        ELSE [lines |-> lines,
              num_segments |-> lp.num_segments + 1,
              path_start |-> lp.path_start]

\* width = length(camera_pos - camera_target_pos) / LINE_WIDTH
LineWidth(cam_pos, cam_target, cb) ==
    LET camera_target_pos ==
            IF cam_target = -1 THEN Vec0 ELSE VToFloat(cb[cam_target].position)
    IN  DivN(Length(VSub(cam_pos, camera_target_pos)), LINE_WIDTH)

\* a seed written at the insertion index instead of the slot before it
SeededAtNextIndex(lp, width) ==
    IF lp.num_segments = 0
    THEN [lp EXCEPT !.lines[NextIndex(lp)] =
                        <<<<DivN(Sub(0, width), 2), 0, 0>>, <<DivN(width, 2), 0, 0>>>>]
    ELSE lp

\* the buffer after the seed written when the trail is empty (lines 252-255)
Seeded(lp, width) ==
    IF lp.num_segments = 0
    THEN [lp EXCEPT !.lines[IndexBefore(lp)] =
                        <<<<DivN(Sub(0, width), 2), 0, 0>>, <<DivN(width, 2), 0, 0>>>>]
    ELSE lp

\* <<o0, o1>>: the Line at index_bef once the seed is in place (lines 257-258)
LastLine(lp, width) == Seeded(lp, width).lines[IndexBefore(lp)]

\* a test against the width itself instead of twice the width
AcceptsBeyondWidth(lp, pos, width) ==
    Gt(Length(VSub(pos, LastLine(lp, width)[1])), width)

\* the test of line 260: glm::abs(glm::length(pos - o0)) > width * 2
Accepts(lp, pos, width) ==
    Gt(Length(VSub(pos, LastLine(lp, width)[1])), Add(width, width))

\* a record call that moves the last stored segment to a rejected sample
update_line_path_updating_last(lp, pos, width) ==
    IF Accepts(lp, pos, width)
    THEN append_to_line_path(Seeded(lp, width), pos, LastLine(lp, width)[1],
                             LastLine(lp, width)[2], width)
    ELSE [Seeded(lp, width) EXCEPT !.lines[IndexBefore(lp)] =
             NewLine(pos, LastLine(lp, width)[1], LastLine(lp, width)[2], width)]

update_line_path(lp, pos, width) ==
    IF Accepts(lp, pos, width)
    THEN append_to_line_path(Seeded(lp, width), pos, LastLine(lp, width)[1],
                             LastLine(lp, width)[2], width)
    ELSE Seeded(lp, width)

\* a copy of the first num_segments slots that ignores path_start
LinearizedFromZero(lp) == [k \in 0 .. (lp.num_segments - 1) |-> lp.lines[k]]

\* the two memcpy of lines 404-407: slots [path_start, num_segments) and then
\* slots [0, path_start)
Linearized(lp) ==
    [k \in 0 .. (lp.num_segments - 1) |->
        IF k < lp.num_segments - lp.path_start
        THEN lp.lines[lp.path_start + k]
        ELSE lp.lines[k - (lp.num_segments - lp.path_start)]]

\* a reset that forgets path_start
ResetPathsCountOnly(pt) == [i \in DOMAIN pt |-> [pt[i] EXCEPT !.num_segments = 0]]

\* "reset paths": num_segments = 0, path_start = 0 for every body
ResetPaths(pt) ==
    [i \in DOMAIN pt |-> [pt[i] EXCEPT !.num_segments = 0, !.path_start = 0]]

(***************************************************************************)
(* Presentation transform (render_celestial_body)                          *)
(***************************************************************************)
\* scale_dist, scale_size, anchor and anchor_scale_dist of lines 343-359
\* a distance scale applied in both modes
ScaleDistAlways(mode, c) == c.minified_dist_scale

ScaleDist(mode, c) == IF mode = RENDER_MINIFIED THEN c.minified_dist_scale ELSE DSCALE

ScaleSize(mode, c) == IF mode = RENDER_MINIFIED THEN c.minified_size_scale ELSE DSCALE

AnchorOf(mode, c) == IF mode = RENDER_MINIFIED THEN c.anchor ELSE -1

\* an anchor placed at its true position, its own distance scale left out
AnchorScaleDistOne(mode, cb, c) == DSCALE

AnchorScaleDist(mode, cb, c) ==
    IF mode = RENDER_MINIFIED /\ c.anchor # -1
    THEN cb[c.anchor].minified_dist_scale ELSE DSCALE

\* the translation of model_mat (lines 364-369)
ModelTranslation(mode, cb, c) ==
    IF AnchorOf(mode, c) # -1
    THEN VAdd(VScale(VToFloat(VSub(c.position, cb[c.anchor].position)),
                     ScaleDist(mode, c), DSCALE),
              VScale(VToFloat(cb[c.anchor].position),
                     AnchorScaleDist(mode, cb, c), DSCALE))
    ELSE VScale(VToFloat(c.position), ScaleDist(mode, c), DSCALE)

\* the scaling of model_mat (line 370)
ModelScale(mode, c) == Mul(ToFloat(c.size), ScaleSize(mode, c), DSCALE)

\* rendered_position (lines 385-391)
RenderedPosition(mode, cb, c) ==
    IF AnchorOf(mode, c) # -1
    THEN VAdd(VToFloat(VScale(cb[c.anchor].position,
                              AnchorScaleDist(mode, cb, c), DSCALE)),
              VToFloat(VScale(VSub(c.position, cb[c.anchor].position),
                              ScaleDist(mode, c), DSCALE)))
    ELSE VToFloat(VScale(c.position, ScaleDist(mode, c), DSCALE))

(***************************************************************************)
(* Camera (main, "camera stuff")                                           *)
(***************************************************************************)
CameraPos(cam_target, cb, dist) ==
    IF cam_target = -1 THEN <<0, 1000 * FSCALE, 0>>
    ELSE LET target == cb[cam_target]
             tpos   == VToFloat(target.position)
             along  == VScale(Normalize(VToFloat(target.velocity), FSCALE),
                              Add(ToFloat(target.size), dist), FSCALE)
         IN  VAdd(VAdd(VSub(VAdd(tpos, along), tpos), tpos),
                  <<0, DivN(dist, 2), 0>>)

\* focused_camera_distance as scroll_callback derives it (lines 155-171)
ZoomDistance(target, zoom) ==
    LET max_zoom == Log2(ToFloat(RDiv(target.size * 35, 10)))
        min_zoom == Log2(MIN_ZOOM)
    IN  IF max_zoom = NaN THEN NaN
        ELSE Exp2(min_zoom + RDiv((max_zoom - min_zoom) * zoom, NUM_ZOOM_LEVELS))

(***************************************************************************)
(* Operations                                                              *)
(***************************************************************************)
IsControl(key) == key = "LEFT_CONTROL" \/ key = "RIGHT_CONTROL"

\* a switch that only ever enters the to-scale mode
ToggledModeOneWay(mode) == RENDER_TO_SCALE

ToggledMode(mode) == IF mode = RENDER_MINIFIED THEN RENDER_TO_SCALE ELSE RENDER_MINIFIED

\* the increment of line 136 without the wrap to -1 of lines 137-139
NextTargetNoFree(t) == (t + 1) % (NumBodies + 1)

\* camera_target after the SPACE branch (lines 136-139)
NextTarget(t) ==
    LET n == (t + 1) % (NumBodies + 1)
    IN  IF n = NumBodies THEN -1 ELSE n

\* a zoom step without the upper limit
NextZoomNoLimit(zoom, yoffset) ==
    IF yoffset > 0 THEN zoom + 1
    ELSE IF yoffset < 0 /\ zoom > 0 THEN zoom - 1
    ELSE zoom

\* zoom_level after lines 159-162
NextZoom(zoom, yoffset) ==
    IF yoffset > 0 /\ zoom < NUM_ZOOM_LEVELS THEN zoom + 1
    ELSE IF yoffset < 0 /\ zoom > 0 THEN zoom - 1
    ELSE zoom

\* a SPACE branch taken in either mode
CyclesTargetAnyMode(key, action, mode) == key = "SPACE" /\ action = "PRESS"

\* the condition of the SPACE branch (line 135)
CyclesTarget(key, action, mode) ==
    key = "SPACE" /\ action = "PRESS" /\ mode = RENDER_TO_SCALE

\* a mode switch that keeps the camera on its target
TargetKeptAfterToggle(target) == target

\* camera_target after a mode switch (line 126): the default camera
TargetAfterToggle(target) == -1

\* a display flag that flips on every key press
ToggledOrbitOnAnyPress(key, action, enabled) ==
    IF action = "PRESS" THEN ~enabled ELSE enabled

\* enable_orbit_rendering after a key event (lines 130-132)
ToggledOrbit(key, action, enabled) ==
    IF key = "O" /\ action = "PRESS" THEN ~enabled ELSE enabled

\* key_callback for one key event; events are delivered by glfwPollEvents
key_callback(key, action) ==
    /\ num_frames > 0
    /\ num_events < MaxEvents
    /\ LET press   == action = "PRESS"
           ctrl    == IsControl(key) /\ press
           mode1   == IF ctrl THEN ToggledMode(rendering_mode) ELSE rendering_mode
           target1 == IF ctrl THEN TargetAfterToggle(camera_target) ELSE camera_target
           space   == CyclesTarget(key, action, mode1)
       IN  /\ should_close' = (should_close \/ (key = "ESCAPE" /\ press))
           /\ rendering_mode' = mode1
           /\ enable_orbit_rendering' = ToggledOrbit(key, action, enable_orbit_rendering)
           /\ camera_target' = IF space THEN NextTarget(target1) ELSE target1
           /\ path_taken' = IF ctrl \/ space THEN ResetPaths(path_taken) ELSE path_taken
           /\ accepted' = IF ctrl \/ space THEN [i \in DOMAIN accepted |-> <<>>] ELSE accepted
    /\ num_events' = num_events + 1
    /\ last_op' = [op |-> "key", key |-> key, action |-> action]
    /\ UNCHANGED <<celestial_bodies, camera_pos, focused_camera_distance, zoom_level,
                   physics_accumulator, last_time, now, num_frames, rendered>>

\* scroll_callback for one scroll event
scroll_callback(yoffset) ==
    /\ num_frames > 0
    /\ num_events < MaxEvents
    /\ IF camera_target = -1 \/ rendering_mode = RENDER_MINIFIED
       THEN UNCHANGED <<zoom_level, path_taken, accepted, focused_camera_distance>>
       ELSE /\ zoom_level' = NextZoom(zoom_level, yoffset)
            /\ path_taken' = ResetPaths(path_taken)
            /\ accepted' = [i \in DOMAIN accepted |-> <<>>]
            /\ focused_camera_distance' =
                  ZoomDistance(celestial_bodies[camera_target], zoom_level')
    /\ num_events' = num_events + 1
    /\ last_op' = [op |-> "scroll", yoffset |-> yoffset]
    /\ UNCHANGED <<rendering_mode, celestial_bodies, camera_target, camera_pos,
                   enable_orbit_rendering, physics_accumulator, last_time, now,
                   should_close, num_frames, rendered>>

\* frame_time without the clamp of line 607
UnclampedFrameTime(t) == t

\* frame_time = glfwGetTime() - last_time, at most 0.3 s (lines 606-607)
ClampedFrameTime(t) == IF t > MAX_FRAME_TIME THEN MAX_FRAME_TIME ELSE t

\* a clock reference that jumps to the current time, dropping what was clamped off
LastTimeReset(last, frame_time, current) == current

\* last_time += frame_time (line 608): the reference moves by the clamped time
LastTimeAdvanced(last, frame_time, current) == last + frame_time

\* a camera placed from the positions the frame began with
FrameCameraBeforePhysics(cam_target, before, after, dist) ==
    CameraPos(cam_target, before, dist)

\* "camera stuff" comes after the physics loop: the camera is placed from the
\* positions the loop left (after), not those the frame began with (before)
FrameCamera(cam_target, before, after, dist) == CameraPos(cam_target, after, dist)

\* one iteration of the main loop, elapsed ticks after the previous one began
Frame(elapsed) ==
    /\ ~should_close
    /\ num_frames < MaxFrames
    /\ \E frame_time \in {ClampedFrameTime((now + elapsed) - last_time)} :
       \E drained \in {Drain(celestial_bodies, physics_accumulator + frame_time)} :
       \E cam \in {FrameCamera(camera_target, celestial_bodies, drained.cb,
                               focused_camera_distance)} :
       \E width \in {LineWidth(cam, camera_target, drained.cb)} :
       \E pos \in {[i \in DOMAIN celestial_bodies |->
                      RenderedPosition(rendering_mode, drained.cb, drained.cb[i])]} :
           /\ now' = now + elapsed
           /\ last_time' = LastTimeAdvanced(last_time, frame_time, now + elapsed)
           /\ physics_accumulator' = drained.acc
           /\ celestial_bodies' = drained.cb
           /\ camera_pos' = cam
           /\ rendered' = [i \in DOMAIN celestial_bodies |->
                 [translation |-> ModelTranslation(rendering_mode, drained.cb, drained.cb[i]),
                  scale       |-> ModelScale(rendering_mode, drained.cb[i]),
                  recorded    |-> pos[i]]]
           /\ path_taken' = [i \in DOMAIN celestial_bodies |-> update_line_path(path_taken[i], pos[i], width)]
           /\ accepted' = [i \in DOMAIN celestial_bodies |->
                 IF Accepts(path_taken[i], pos[i], width)
                 THEN Append(accepted[i],
                             [line   |-> NewLine(pos[i], LastLine(path_taken[i], width)[1],
                                                 LastLine(path_taken[i], width)[2], width),
                              mode   |-> rendering_mode,
                              target |-> camera_target,
                              zoom   |-> zoom_level])
                 ELSE accepted[i]]
           /\ last_op' = [op |-> "frame", elapsed |-> elapsed, steps |-> drained.steps]
    /\ num_frames' = num_frames + 1
    /\ UNCHANGED <<rendering_mode, camera_target, focused_camera_distance, zoom_level,
                   enable_orbit_rendering, should_close, num_events>>

Next ==
    \/ \E ev \in KeyEvents : key_callback(ev[1], ev[2])
    \/ \E yoffset \in Offsets : scroll_callback(yoffset)
    \/ \E elapsed \in ElapsedTimes : Frame(elapsed)

Spec == Init /\ [][Next]_vars

(***************************************************************************)
(* The main loop under stalls: iterations that take longer than the clamp  *)
(***************************************************************************)
\* wall time of an iteration, in ticks: a normal one, and one above the clamp
StallTimes == {3, MAX_FRAME_TIME + 20}

NextStall ==
    \/ \E elapsed \in StallTimes : Frame(elapsed)
    \/ key_callback("O", "PRESS")

SpecStall == Init /\ [][NextStall]_vars

\* frames after a stall of more than twice MAX_FRAME_TIME, with the display key
CarryTimes == {3, 2 * MAX_FRAME_TIME + 20}

NextCarry ==
    \/ \E elapsed \in CarryTimes : Frame(elapsed)
    \/ key_callback("O", "PRESS")

SpecCarry == Init /\ [][NextCarry]_vars

(***************************************************************************)
(* The main loop over other registries than the one main() builds: what    *)
(* create_celestial_body accepts, registered in creation order             *)
(***************************************************************************)
\* positions of the first body: the origin, and a point off it
RootPositions == {Vec0, <<2 * DSCALE, 0, 0>>}

\* masses (floats) of the first and of the second body
RootMasses == {400 * FSCALE, 4000 * FSCALE}

SecondMasses == {0, 10 * FSCALE, 400 * FSCALE}

\* body i of a registry: each body anchored to the one created before it, the
\* second one either on top of the first (together) or apart from it
RegistryBody(i, root, m0, m1, together) ==
    create_celestial_body(
        IF i = 0 \/ (i = 1 /\ together) THEN root
        ELSE VAdd(root, <<6 * i * DSCALE, 0, 0>>),
        IF i = 0 THEN Vec0 ELSE <<0, 0, 20 * DSCALE>>,
        IF i = 0 THEN m0 ELSE IF i = 1 THEN m1 ELSE FSCALE,
        FSCALE \div 2,
        4 * DSCALE,
        (i + 2) * DSCALE,
        i - 1)

InitBodies ==
    /\ \E n \in 2 .. NumBodies : \E root \in RootPositions :
       \E m0 \in RootMasses : \E m1 \in SecondMasses : \E together \in BOOLEAN :
           /\ celestial_bodies =
                  [i \in 0 .. (n - 1) |-> RegistryBody(i, root, m0, m1, together)]
           /\ path_taken = [i \in 0 .. (n - 1) |-> create_line_path]
           /\ accepted = [i \in 0 .. (n - 1) |-> <<>>]
           /\ rendered = [i \in 0 .. (n - 1) |->
                             [translation |-> Vec0, scale |-> 0, recorded |-> Vec0]]
    /\ rendering_mode = RENDER_MINIFIED
    /\ camera_target = -1
    /\ camera_pos = Vec0
    /\ focused_camera_distance = FOCUSED_CAMERA_DIST
    /\ zoom_level = NUM_ZOOM_LEVELS \div 2
    /\ enable_orbit_rendering = FALSE
    /\ physics_accumulator = 0
    /\ last_time = 0
    /\ now = 0
    /\ should_close = FALSE
    /\ num_frames = 0
    /\ num_events = 0
    /\ last_op = [op |-> "main"]

NextBodies == \E elapsed \in ElapsedTimes : Frame(elapsed)

SpecBodies == InitBodies /\ [][NextBodies]_vars

(***************************************************************************)
(* A light body on a circular orbit around a heavy one                     *)
(***************************************************************************)
\* the distance between the two bodies at creation
OrbitRadius == 4 * DSCALE

\* masses (floats) of the heavy and of the light body
HeavyMasses == {400 * FSCALE, 1000 * FSCALE, 4000 * FSCALE}

LightMasses == {FSCALE \div 10, FSCALE}

\* wall time of one loop iteration: up to 90 fixed steps per frame
OrbitTimes == {MAX_FRAME_TIME, MAX_FRAME_TIME \div 2 + 11}

HeavyBody(M) ==
    create_celestial_body(Vec0, Vec0, M, 2 * FSCALE, 2 * DSCALE, DSCALE, -1)

LightBody0(m) ==
    create_celestial_body(<<OrbitRadius, 0, 0>>, <<0, 0, DSCALE>>, m, FSCALE \div 2,
                          4 * DSCALE, DSCALE \div 2, 0)

\* velocity *= sqrt(G * M / length(heavy.position - light.position))
LightBody(M, m) ==
    WithOrbit(LightBody0(m),
              OrbitalVelocityMag(HeavyBody(M).mass, HeavyBody(M).position,
                                 LightBody0(m).position))

InitOrbit ==
    /\ \E M \in HeavyMasses : \E m \in LightMasses :
           celestial_bodies = (0 :> HeavyBody(M)) @@ (1 :> LightBody(M, m))
    /\ path_taken = [i \in 0 .. 1 |-> create_line_path]
    /\ accepted = [i \in 0 .. 1 |-> <<>>]
    /\ rendered = [i \in 0 .. 1 |-> [translation |-> Vec0, scale |-> 0, recorded |-> Vec0]]
    /\ rendering_mode = RENDER_MINIFIED
    /\ camera_target = -1
    /\ camera_pos = Vec0
    /\ focused_camera_distance = FOCUSED_CAMERA_DIST
    /\ zoom_level = NUM_ZOOM_LEVELS \div 2
    /\ enable_orbit_rendering = FALSE
    /\ physics_accumulator = 0
    /\ last_time = 0
    /\ now = 0
    /\ should_close = FALSE
    /\ num_frames = 0
    /\ num_events = 0
    /\ last_op = [op |-> "main"]

NextOrbit == \E elapsed \in OrbitTimes : Frame(elapsed)

SpecOrbit == InitOrbit /\ [][NextOrbit]_vars

(***************************************************************************)
(* Steps of the behaviour, recognised from the operation that made them    *)
(***************************************************************************)
FrameStep == last_op'.op = "frame" /\ num_frames' = num_frames + 1

EventStep == num_events' = num_events + 1

ToggleModeStep ==
    EventStep /\ last_op'.op = "key" /\ IsControl(last_op'.key) /\ last_op'.action = "PRESS"

SpacePressStep ==
    EventStep /\ last_op'.op = "key" /\ last_op'.key = "SPACE" /\ last_op'.action = "PRESS"

ScrollStep == EventStep /\ last_op'.op = "scroll"

TrailsCleared(pt) ==
    \A i \in Bodies : pt[i].num_segments = 0 /\ pt[i].path_start = 0

Min2(a, b) == IF a < b THEN a ELSE b

(***************************************************************************)
(* Trail buffer                                                            *)
(***************************************************************************)
\* C1: every trail always has 0 <= count <= C and 0 <= start < C; count
\* saturates at C and never grows past it.
C1_TrailBounds ==
    \A i \in Bodies :
        /\ path_taken[i].num_segments \in 0 .. MAX_LINE_PATH_SEGMENTS
        /\ path_taken[i].path_start \in 0 .. (MAX_LINE_PATH_SEGMENTS - 1)

\* a full trail that took one more segment: count stayed at C, start moved on
C1_Witness ==
    \E i \in Bodies :
        /\ path_taken[i].num_segments = MAX_LINE_PATH_SEGMENTS
        /\ path_taken[i].path_start # 0
        /\ Len(accepted[i]) > MAX_LINE_PATH_SEGMENTS

\* C2: after k accepted samples since the last clear a trail holds the last
\* min(k, C) of them, and linearization yields exactly those, oldest first.
C2_LinearizedIsRecentHistory ==
    \A i \in Bodies :
        LET lp   == path_taken[i]
            k    == Len(accepted[i])
            held == Min2(k, MAX_LINE_PATH_SEGMENTS)
        IN  /\ lp.num_segments = held
            /\ DOMAIN Linearized(lp) = 0 .. (held - 1)
            /\ \A j \in 0 .. (held - 1) :
                   Linearized(lp)[j] = accepted[i][k - held + j + 1].line

\* more samples accepted than the buffer holds, read back across the wrap
C2_Witness ==
    \E i \in Bodies :
        /\ Len(accepted[i]) = MAX_LINE_PATH_SEGMENTS + 1
        /\ path_taken[i].path_start = 1
        /\ Linearized(path_taken[i])[0] = accepted[i][2].line
        /\ Linearized(path_taken[i])[0] # Linearized(path_taken[i])[1]

\* C3: an accepted insertion writes the new segment at index
\* (start + count) mod C; below capacity count grows by one and start stays,
\* at capacity that index is the oldest segment's, count stays C and start
\* becomes (start + 1) mod C.
C3_InsertionIndex ==
    [][FrameStep =>
        \A i \in Bodies :
            Len(accepted'[i]) = Len(accepted[i]) + 1 =>
                LET lp    == path_taken[i]
                    index == (lp.path_start + lp.num_segments) % MAX_LINE_PATH_SEGMENTS
                    later == path_taken'[i]
                IN  /\ later.lines[index] = accepted'[i][Len(accepted'[i])].line
                    /\ IF lp.num_segments < MAX_LINE_PATH_SEGMENTS
                       THEN /\ later.num_segments = lp.num_segments + 1
                            /\ later.path_start = lp.path_start
                       ELSE /\ index = lp.path_start
                            /\ later.num_segments = MAX_LINE_PATH_SEGMENTS
                            /\ later.path_start =
                                  (lp.path_start + 1) % MAX_LINE_PATH_SEGMENTS]_vars

\* the frame just run evicted the oldest segment of a full trail
C3_Witness ==
    \E i \in Bodies :
        /\ last_op.op = "frame"
        /\ Len(accepted[i]) = MAX_LINE_PATH_SEGMENTS + 1
        /\ path_taken[i].lines[0] = accepted[i][MAX_LINE_PATH_SEGMENTS + 1].line
        /\ path_taken[i].num_segments = MAX_LINE_PATH_SEGMENTS

(***************************************************************************)
(* Decimation                                                              *)
(***************************************************************************)
Within(v, bound) == v # NaN /\ bound # NaN /\ v <= bound

Closer(v, bound) == v # NaN /\ bound # NaN /\ v < bound

\* two record calls in a row on every trail, no event between them, same width
ConsecutiveRecords ==
    /\ last_op.op = "frame"
    /\ FrameStep
    /\ LineWidth(camera_pos', camera_target', celestial_bodies')
           = LineWidth(camera_pos, camera_target, celestial_bodies)

\* the first endpoint the decimation test reads: of the newest stored segment,
\* or of the seed at the origin while the trail is empty
Reference(lp, width) ==
    IF lp.num_segments = 0 THEN <<DivN(Sub(0, width), 2), 0, 0>>
    ELSE Linearized(lp)[lp.num_segments - 1][1]

\* C4 as stated: two consecutive record calls (same width w, no clear between)
\* whose render positions are closer than 2w to each other: the second does
\* not increase count.
C4_CloseToPreviousCall ==
    [][ConsecutiveRecords =>
        \A i \in Bodies :
            Closer(Length(VSub(rendered'[i].recorded, rendered[i].recorded)),
                   Add(LineWidth(camera_pos', camera_target', celestial_bodies'),
                       LineWidth(camera_pos', camera_target', celestial_bodies')))
            => path_taken'[i].num_segments <= path_taken[i].num_segments]_vars

\* C4, amended: two consecutive record calls (same width w, no clear between):
\* when the second call's render position is within 2w of the first endpoint
\* of the newest stored segment (of the seed while the trail is empty), the
\* second call does not increase count.
C4_CloseToStoredEndpoint ==
    [][ConsecutiveRecords =>
        \A i \in Bodies :
            LET w == LineWidth(camera_pos', camera_target', celestial_bodies')
            IN  Within(Length(VSub(rendered'[i].recorded, Reference(path_taken[i], w))),
                       Add(w, w))
                => path_taken'[i].num_segments <= path_taken[i].num_segments]_vars

\* two frames and no event: a body whose second record stayed within 2w of the
\* stored endpoint and was dropped (the stored segment is centred elsewhere)
C4_Witness ==
    /\ num_events = 0
    /\ num_frames = 2
    /\ \E i \in Bodies :
           LET lp   == path_taken[i]
               w    == LineWidth(camera_pos, camera_target, celestial_bodies)
               last == Linearized(lp)[lp.num_segments - 1]
           IN  /\ lp.num_segments = 1
               /\ VAdd(last[1], last[2]) # VAdd(rendered[i].recorded, rendered[i].recorded)
               /\ Within(Length(VSub(rendered[i].recorded, last[1])), Add(w, w))

(***************************************************************************)
(* Presentation state machine                                              *)
(***************************************************************************)
\* C5: ToggleMode flips the mode, sets the camera target to None and clears
\* every trail (count = 0, start = 0).
C5_ToggleMode ==
    [][ToggleModeStep =>
        /\ rendering_mode' # rendering_mode
        /\ rendering_mode' \in {RENDER_TO_SCALE, RENDER_MINIFIED}
        /\ camera_target' = -1
        /\ TrailsCleared(path_taken')]_vars

\* back in Minified after a toggle that dropped a trail that had segments
C5_Witness ==
    /\ last_op.op = "key"
    /\ IsControl(last_op.key)
    /\ last_op.action = "PRESS"
    /\ rendering_mode = RENDER_MINIFIED
    /\ camera_target = -1
    /\ \E i \in Bodies : path_taken[i].lines[0] # ZeroLine /\ path_taken[i].num_segments = 0

RECURSIVE Cycled(_, _)
\* the camera target after k CycleTarget events from target t
Cycled(t, k) == IF k = 0 THEN t ELSE Cycled(NextTarget(t), k - 1)

\* C6: in ToScale, CycleTarget sends None to body 0, body i to body i+1 for
\* i < N-1 and body N-1 to None; N+1 cycles from None visit every body once in
\* registry order and end at None; the target is always None or in [0, N).
C6_CycleTarget ==
    /\ [](camera_target \in {-1} \cup Bodies)
    /\ [][(SpacePressStep /\ rendering_mode = RENDER_TO_SCALE) =>
            camera_target' = IF camera_target = -1 THEN 0
                             ELSE IF camera_target < NumBodies - 1 THEN camera_target + 1
                             ELSE -1]_vars
    /\ [](/\ \A k \in 1 .. NumBodies : Cycled(-1, k) = k - 1
          /\ Cycled(-1, NumBodies + 1) = -1)

\* the cycle has just stepped from the last body back to the free camera
C6_Witness ==
    /\ last_op.op = "key"
    /\ last_op.key = "SPACE"
    /\ last_op.action = "PRESS"
    /\ rendering_mode = RENDER_TO_SCALE
    /\ camera_target = -1
    /\ num_events = NumBodies + 2

\* C7: the zoom level stays in [0, ZMAX]; a permitted zoom-in sets it to
\* min(zoom + 1, ZMAX), a permitted zoom-out to max(zoom - 1, 0).
C7_ZoomRange ==
    /\ [](zoom_level \in 0 .. NUM_ZOOM_LEVELS)
    /\ [][(ScrollStep /\ camera_target # -1 /\ rendering_mode = RENDER_TO_SCALE) =>
            /\ last_op'.yoffset > 0 =>
                   zoom_level' = Min2(zoom_level + 1, NUM_ZOOM_LEVELS)
            /\ last_op'.yoffset < 0 =>
                   zoom_level' = Max2(zoom_level - 1, 0)]_vars

\* a zoom-in delivered at ZMAX: more zoom-ins than levels above the start
C7_Witness ==
    /\ last_op.op = "scroll"
    /\ last_op.yoffset > 0
    /\ zoom_level = NUM_ZOOM_LEVELS
    /\ camera_target # -1
    /\ num_events > 2 + (NUM_ZOOM_LEVELS - NUM_ZOOM_LEVELS \div 2)

\* C8: whenever the target, the zoom level or the mode differs between two
\* consecutive states every trail is cleared in the later one, so no trail
\* holds a segment recorded under another target, zoom level or mode.
C8_ChangeClearsTrails ==
    /\ [][(\/ camera_target' # camera_target
           \/ zoom_level' # zoom_level
           \/ rendering_mode' # rendering_mode) => TrailsCleared(path_taken')]_vars
    /\ [](\A i \in Bodies : \A k \in 1 .. Len(accepted[i]) :
             /\ accepted[i][k].mode = rendering_mode
             /\ accepted[i][k].target = camera_target
             /\ accepted[i][k].zoom = zoom_level)

\* a trail refilled under a followed body and a zoom level other than the first
C8_Witness ==
    /\ camera_target # -1
    /\ zoom_level # NUM_ZOOM_LEVELS \div 2
    /\ \E i \in Bodies :
           /\ path_taken[i].num_segments > 0
           /\ accepted[i][1].zoom = zoom_level
           /\ accepted[i][1].target = camera_target

\* the program's state, without the bookkeeping of the exploration
program_state ==
    <<rendering_mode, celestial_bodies, camera_target, camera_pos,
      focused_camera_distance, zoom_level, enable_orbit_rendering, path_taken,
      physics_accumulator, last_time, now, should_close, rendered>>

\* C9: Zoom with no target or in Minified, and CycleTarget in Minified, leave
\* the whole state unchanged.
C9_IgnoredEvents ==
    [][/\ (ScrollStep /\ (camera_target = -1 \/ rendering_mode = RENDER_MINIFIED))
             => UNCHANGED program_state
       /\ (SpacePressStep /\ rendering_mode = RENDER_MINIFIED)
             => UNCHANGED program_state]_vars

\* an ignored scroll with trails on screen, which it left alone
C9_Witness ==
    /\ last_op.op = "scroll"
    /\ last_op.yoffset # 0
    /\ camera_target = -1
    /\ zoom_level = NUM_ZOOM_LEVELS \div 2
    /\ \E i \in Bodies : path_taken[i].num_segments > 0

(***************************************************************************)
(* To-scale presentation                                                   *)
(***************************************************************************)
\* C10: in to-scale mode a body is drawn at its true position with its radius
\* as scale, and that same position is what the trail recorder is given
\* (positions compared in the single precision the renderer works in).
C10_ToScaleIsIdentity ==
    (last_op.op = "frame" /\ rendering_mode = RENDER_TO_SCALE) =>
        \A i \in Bodies :
            /\ rendered[i].translation = VToFloat(celestial_bodies[i].position)
            /\ rendered[i].scale = ToFloat(celestial_bodies[i].size)
            /\ rendered[i].recorded = rendered[i].translation

\* a to-scale frame drew an anchored body whose minified picture would differ
C10_Witness ==
    /\ last_op.op = "frame"
    /\ rendering_mode = RENDER_TO_SCALE
    /\ \E i \in Bodies :
           /\ celestial_bodies[i].anchor # -1
           /\ celestial_bodies[i].minified_dist_scale # DSCALE
           /\ rendered[i].recorded # Vec0
           /\ rendered[i].recorded # RenderedPosition(RENDER_MINIFIED, celestial_bodies,
                                                      celestial_bodies[i])

(***************************************************************************)
(* Minified presentation                                                   *)
(***************************************************************************)
\* a float vector r is the exact vector e / DSCALE^2 (world units) to within
\* tol units of single precision in every component
NearExact(r, e, tol) ==
    /\ ~HasNaN(r)
    /\ \A k \in 1 .. 3 :
           Abs(r[k] * DSCALE * DSCALE - e[k] * FSCALE) <= tol * DSCALE * DSCALE

\* position * scale, exactly, in units of 1 / DSCALE^2
Scaled(position, scale) == <<position[1] * scale, position[2] * scale, position[3] * scale>>

\* A.position * s_a + (B.position - A.position) * s_b, exactly
Composed(A, B) ==
    VAdd(Scaled(A.position, A.minified_dist_scale),
         Scaled(VSub(B.position, A.position), B.minified_dist_scale))

\* the registry of the example: A at (10,0,0) with s_a = 2, B at (12,0,0) with s_b = 5
ExampleRegistry ==
    (0 :> create_celestial_body(<<10 * DSCALE, 0, 0>>, Vec0, FSCALE, FSCALE,
                                DSCALE, 2 * DSCALE, -1))
    @@ (1 :> create_celestial_body(<<12 * DSCALE, 0, 0>>, Vec0, FSCALE, FSCALE,
                                   DSCALE, 5 * DSCALE, 0))

\* C11: in minified mode a body B whose anchor A has no anchor is rendered at
\* A.position * s_a + (B.position - A.position) * s_b, a body without anchor at
\* position * s (to within the rounding to single precision); the example
\* A = (10,0,0), s_a = 2, B = (12,0,0), s_b = 5 gives (30,0,0).
C11_MinifiedComposition ==
    /\ RenderedPosition(RENDER_MINIFIED, ExampleRegistry, ExampleRegistry[1])
           = <<30 * FSCALE, 0, 0>>
    /\ (last_op.op = "frame" /\ rendering_mode = RENDER_MINIFIED) =>
           \A i \in DOMAIN celestial_bodies :
               LET B == celestial_bodies[i]
               IN  IF B.anchor = -1
                   THEN ~HasNaN(B.position) =>
                            /\ NearExact(rendered[i].recorded,
                                         Scaled(B.position, B.minified_dist_scale), 1)
                            /\ NearExact(rendered[i].translation,
                                         Scaled(B.position, B.minified_dist_scale),
                                         1 + B.minified_dist_scale \div DSCALE)
                   ELSE LET A == celestial_bodies[B.anchor]
                        IN  (A.anchor = -1 /\ ~HasNaN(A.position) /\ ~HasNaN(B.position)) =>
                                /\ NearExact(rendered[i].recorded, Composed(A, B), 1)
                                /\ NearExact(rendered[i].translation, Composed(A, B),
                                             1 + (A.minified_dist_scale
                                                  + B.minified_dist_scale) \div DSCALE)

\* a minified frame drew a body whose anchor, itself unanchored, is off the origin
C11_Witness ==
    /\ last_op.op = "frame"
    /\ rendering_mode = RENDER_MINIFIED
    /\ \E i \in DOMAIN celestial_bodies :
           LET B == celestial_bodies[i]
           IN  /\ B.anchor # -1
               /\ celestial_bodies[B.anchor].anchor = -1
               /\ celestial_bodies[B.anchor].position # Vec0
               /\ ~HasNaN(celestial_bodies[B.anchor].position)
               /\ ~HasNaN(B.position)
               /\ B.position # celestial_bodies[B.anchor].position
               /\ ~HasNaN(rendered[i].recorded)

\* (B.position - A.position) * s_b as a float vector
ScaledOffset(A, B) ==
    <<RDiv((B.position[1] - A.position[1]) * B.minified_dist_scale * FSCALE, DSCALE * DSCALE),
      RDiv((B.position[2] - A.position[2]) * B.minified_dist_scale * FSCALE, DSCALE * DSCALE),
      RDiv((B.position[3] - A.position[3]) * B.minified_dist_scale * FSCALE, DSCALE * DSCALE)>>

\* C12: in minified mode every body B with anchor A is rendered at
\* renderPosition(A) + (B.position - A.position) * s_b, the anchor's own
\* minified render position being the origin, however deep the anchors chain
\* (to within two units of single precision).
C12_AnchorRecursion ==
    (last_op.op = "frame" /\ rendering_mode = RENDER_MINIFIED) =>
        \A i \in DOMAIN celestial_bodies :
            LET B == celestial_bodies[i]
            IN  (B.anchor # -1 /\ ~HasNaN(B.position)
                 /\ ~HasNaN(celestial_bodies[B.anchor].position)
                 /\ ~HasNaN(rendered[B.anchor].recorded)) =>
                    LET A     == celestial_bodies[B.anchor]
                        want  == VAdd(rendered[B.anchor].recorded, ScaledOffset(A, B))
                    IN  /\ ~HasNaN(rendered[i].recorded)
                        /\ \A k \in 1 .. 3 : Abs(rendered[i].recorded[k] - want[k]) <= 2

(***************************************************************************)
(* Fixed-step clock                                                        *)
(***************************************************************************)
\* C13: a frame adds min(elapsed wall time, MAX_FRAME_TIME) to the accumulator
\* A and then steps while A >= STEP; the loop ends, performs exactly
\* floor(A / STEP) steps, at most floor(MAX_FRAME_TIME / STEP) + 1 however long
\* the stall, and leaves 0 <= A < STEP.
C13_AccumulatorDrain ==
    [][FrameStep =>
        LET elapsedWallTime == now' - last_time
            A == physics_accumulator + Min2(elapsedWallTime, MAX_FRAME_TIME)
        IN  /\ last_op'.steps = A \div physics_step
            /\ last_op'.steps <= (MAX_FRAME_TIME \div physics_step) + 1
            /\ physics_accumulator' = A - last_op'.steps * physics_step
            /\ physics_accumulator' >= 0
            /\ physics_accumulator' < physics_step]_vars

\* a frame that came after a stall longer than the clamp: the clock lags the
\* wall time and the drain made the clamp's worth of steps
C13_Witness ==
    /\ last_op.op = "frame"
    /\ last_op.elapsed > MAX_FRAME_TIME
    /\ last_op.steps >= MAX_FRAME_TIME \div physics_step
    /\ now > last_time
    /\ num_frames > 1

(***************************************************************************)
(* Integrator                                                              *)
(***************************************************************************)
RECURSIVE TotalGain(_, _, _)
\* the velocity body i gains from the bodies js, all at their positions in cb
TotalGain(cb, i, js) ==
    IF js = {} THEN Vec0
    ELSE LET j == CHOOSE x \in js : TRUE
         IN  VAdd(VelocityGain(cb[i], cb[j]), TotalGain(cb, i, js \ {j}))

\* the registry one step after the snapshot cb: every velocity from the
\* positions in cb, then every position by its new velocity times STEP
SnapshotStep(cb) ==
    [i \in DOMAIN cb |->
        LET v == VAdd(cb[i].velocity, TotalGain(cb, i, DOMAIN cb \ {i}))
        IN  [cb[i] EXCEPT !.velocity = v,
                          !.position = <<Add(cb[i].position[1], TimesDt(v[1])),
                                         Add(cb[i].position[2], TimesDt(v[2])),
                                         Add(cb[i].position[3], TimesDt(v[3]))>>]]

\* C14: within one fixed step every body's velocity update is computed from
\* the same pre-step position snapshot, and only then is every position
\* advanced by the new velocity times STEP.
C14_SnapshotIntegration ==
    [][FrameStep =>
        /\ last_op'.steps = 1 => celestial_bodies' = SnapshotStep(celestial_bodies)
        /\ last_op'.steps = 2 =>
               celestial_bodies' = SnapshotStep(SnapshotStep(celestial_bodies))]_vars

\* a frame of two steps that moved the second and the third body
C14_Witness ==
    /\ last_op.op = "frame"
    /\ last_op.steps = 2
    /\ num_frames > 1
    /\ \A i \in DOMAIN celestial_bodies :
           ~HasNaN(celestial_bodies[i].position) /\ ~HasNaN(celestial_bodies[i].velocity)
    /\ celestial_bodies[1].position[3] # 0
    /\ celestial_bodies[2].velocity[1] # 0

(***************************************************************************)
(* Construction                                                            *)
(***************************************************************************)
\* C15: a body with zero or negative mass, or with an anchor that is itself
\* or is not in the registry, is refused at construction time, so no such
\* body is ever present in the registry.
C15_InvalidBodiesRefused ==
    \A i \in DOMAIN celestial_bodies :
        /\ celestial_bodies[i].mass > 0
        /\ celestial_bodies[i].anchor # i
        /\ celestial_bodies[i].anchor \in {-1} \cup DOMAIN celestial_bodies

(***************************************************************************)
(* Camera                                                                  *)
(***************************************************************************)
\* C16: whenever a body is targeted, the camera distance a frame uses is the
\* value derived from the current target and the current zoom_level, never a
\* value left over from an earlier target or from before any zoom event.
C16_CameraDistanceDerived ==
    (last_op.op = "frame" /\ camera_target # -1) =>
        focused_camera_distance =
            ZoomDistance(celestial_bodies[camera_target], zoom_level)

(***************************************************************************)
(* Frame ordering                                                          *)
(***************************************************************************)
\* C17: within a frame the inputs come first, then the physics drain, then
\* the camera position, then each body's presentation and trail sample; no
\* input is applied between the drain and the recording, and every sample
\* uses the positions and the camera position produced in that same frame.
C17_FrameOrdering ==
    [][/\ FrameStep =>
            /\ UNCHANGED <<rendering_mode, camera_target, zoom_level,
                           focused_camera_distance>>
            /\ camera_pos' = CameraPos(camera_target, celestial_bodies',
                                       focused_camera_distance)
            /\ \A i \in DOMAIN celestial_bodies :
                  /\ rendered'[i].recorded =
                         RenderedPosition(rendering_mode, celestial_bodies',
                                          celestial_bodies'[i])
                  /\ path_taken'[i] =
                         update_line_path(path_taken[i], rendered'[i].recorded,
                                          LineWidth(camera_pos', camera_target,
                                                    celestial_bodies'))
       /\ EventStep =>
            UNCHANGED <<celestial_bodies, physics_accumulator, camera_pos,
                        rendered>>]_vars

\* a frame that follows an input, stepped the bodies, placed the camera at the
\* target and left a sample in a trail
C17_Witness ==
    /\ last_op.op = "frame"
    /\ last_op.steps >= 1
    /\ num_events > 0
    /\ camera_target # -1
    /\ ~HasNaN(camera_pos)
    /\ celestial_bodies[1].position # BodyTable[2].position
    /\ \E i \in DOMAIN path_taken : path_taken[i].num_segments > 0

(***************************************************************************)
(* Momentum                                                                *)
(***************************************************************************)
\* a registry of exactly two bodies with positive masses at different places
IsolatedPair(cb) ==
    /\ DOMAIN cb = {0, 1}
    /\ cb[0].mass > 0
    /\ cb[1].mass > 0
    /\ cb[0].position # cb[1].position
    /\ \A i \in DOMAIN cb : ~HasNaN(cb[i].position) /\ ~HasNaN(cb[i].velocity)

\* m_0 * dv_0 + m_1 * dv_1 of one step, per axis, with the masses in whole units
ImpulseSum(before, after, axis) ==
    (before[0].mass \div DSCALE) * (after[0].velocity[axis] - before[0].velocity[axis])
    + (before[1].mass \div DSCALE) * (after[1].velocity[axis] - before[1].velocity[axis])

\* the two impulses of one step cancel, up to one grid unit of velocity per body
ImpulsesCancel(before, after) ==
    IsolatedPair(before) =>
        /\ IsolatedPair(after)
        /\ \A axis \in 1 .. 3 :
              Abs(ImpulseSum(before, after, axis))
                  <= (before[0].mass \div DSCALE) + (before[1].mass \div DSCALE)

\* C18: in an isolated two-body system (positive masses, distinct positions)
\* one fixed step changes the two velocities by impulses that are equal and
\* opposite when weighted by mass, so every step leaves total momentum
\* unchanged (up to the rounding of the velocity grid).
C18_MomentumConserved ==
    [][FrameStep =>
        /\ last_op'.steps = 1 => ImpulsesCancel(celestial_bodies, celestial_bodies')
        /\ last_op'.steps = 2 =>
              /\ ImpulsesCancel(celestial_bodies, SnapshotStep(celestial_bodies))
              /\ ImpulsesCancel(SnapshotStep(celestial_bodies), celestial_bodies')]_vars

\* two bodies of different positive masses that have pulled each other
C18_Witness ==
    /\ IsolatedPair(celestial_bodies)
    /\ last_op.op = "frame"
    /\ last_op.steps >= 1
    /\ celestial_bodies[0].mass # celestial_bodies[1].mass
    /\ celestial_bodies[0].velocity[1] > 0
    /\ celestial_bodies[1].velocity[1] < 0

(***************************************************************************)
(* Trail seed                                                              *)
(***************************************************************************)
\* the segment of the given width that lies on the x axis around the origin
OriginSeed(width) == <<<<DivN(Sub(0, width), 2), 0, 0>>, <<DivN(width, 2), 0, 0>>>>

\* the middle of a segment's two endpoints
Midpoint(line) == VAdd(VDivN(VSub(line[1], line[2]), 2), line[2])

\* the width the frame that ends in the primed state records with
FrameWidth == LineWidth(camera_pos', camera_target, celestial_bodies')

\* C19 as stated: on the first record call on an empty trail the seeded
\* segment is centered at the given render position, so the first comparison
\* is made against the body's own render position.
C19_SeedAtRenderPosition ==
    [][FrameStep =>
        \A i \in DOMAIN path_taken :
            path_taken[i].num_segments = 0 =>
                Midpoint(path_taken'[i].lines[IndexBefore(path_taken[i])])
                    = rendered'[i].recorded]_vars

\* C19 amended: on a record call on an empty trail the seed is the segment
\* from (-w/2, 0, 0) to (w/2, 0, 0) of the current width w around the world
\* origin, written in the slot before the insertion index and not counted;
\* the sample is stored exactly when it is farther than 2w from (-w/2, 0, 0).
C19_SeedAtOrigin ==
    [][FrameStep =>
        \E w \in {FrameWidth} : \E seed \in {OriginSeed(w)} :
            \A i \in DOMAIN path_taken :
                path_taken[i].num_segments = 0 =>
                    /\ path_taken'[i].lines[IndexBefore(path_taken[i])] = seed
                    /\ path_taken'[i].num_segments \in {0, 1}
                    /\ path_taken'[i].num_segments = 1 <=>
                           Gt(Length(VSub(rendered'[i].recorded, seed[1])), Add(w, w))
                    /\ path_taken'[i].num_segments = 1 =>
                           path_taken'[i].lines[NextIndex(path_taken[i])] =
                               NewLine(rendered'[i].recorded, seed[1], seed[2], w)]_vars

\* a frame that seeded an empty trail of a body away from the origin and
\* stored its first sample next to the seed
C19_Witness ==
    /\ last_op.op = "frame"
    /\ \E i \in DOMAIN path_taken :
          /\ path_taken[i].num_segments = 1
          /\ path_taken[i].path_start = 0
          /\ rendered[i].recorded # Vec0
          /\ ~HasNaN(rendered[i].recorded)
          /\ LineWidth(camera_pos, camera_target, celestial_bodies) > 0
          /\ path_taken[i].lines[MAX_LINE_PATH_SEGMENTS - 1] =
                 OriginSeed(LineWidth(camera_pos, camera_target, celestial_bodies))

(***************************************************************************)
(* Softening                                                               *)
(***************************************************************************)
\* C20: the softening constant mitigates near-zero separation: for bodies of
\* positive mass, also when two of them are at the same position, every
\* fixed step yields a defined, finite velocity and position for every body.
C20_SofteningKeepsFinite ==
    (\A i \in DOMAIN celestial_bodies : celestial_bodies[i].mass > 0) =>
        \A i \in DOMAIN celestial_bodies :
            /\ ~HasNaN(celestial_bodies[i].velocity)
            /\ ~HasNaN(celestial_bodies[i].position)

(***************************************************************************)
(* Mode and target                                                         *)
(***************************************************************************)
\* C23: in every reachable state the minified mode implies that no body is
\* targeted, so a frame never places a focused camera in minified mode and a
\* scroll event is never accepted in minified mode.
C23_MinifiedHasNoTarget ==
    rendering_mode = RENDER_MINIFIED => camera_target = -1

\* the minified mode entered by a mode switch while the camera was on a body
\* (camera_pos is still the focused position of the last frame)
C23_Witness ==
    /\ rendering_mode = RENDER_MINIFIED
    /\ last_op.op = "key"
    /\ IsControl(last_op.key)
    /\ last_op.action = "PRESS"
    /\ camera_pos # <<0, 1000 * FSCALE, 0>>
    /\ camera_pos # Vec0
    /\ camera_target = -1

(***************************************************************************)
(* Linearization bounds                                                    *)
(***************************************************************************)
\* the slots the two copies of lines 406-407 read: first the num_segments -
\* path_start slots from path_start on, then the path_start slots from 0 on
CopiedSlots(lp) ==
    {lp.path_start + k : k \in 0 .. (lp.num_segments - lp.path_start - 1)}
    \cup (0 .. (lp.path_start - 1))

\* C24: in every reachable trail state start # 0 implies count = C, so the two
\* copy lengths of linearize, count - start and start, are non-negative, sum
\* to count, and read only indices inside [0, C).
C24_LinearizeInBounds ==
    \A i \in DOMAIN path_taken :
        LET lp == path_taken[i]
        IN  /\ lp.path_start # 0 => lp.num_segments = MAX_LINE_PATH_SEGMENTS
            /\ lp.num_segments - lp.path_start >= 0
            /\ lp.path_start >= 0
            /\ CopiedSlots(lp) \subseteq Slots
            /\ Cardinality(CopiedSlots(lp)) = lp.num_segments

\* a frame linearized a wrapped trail: both copies are non-empty
C24_Witness ==
    /\ last_op.op = "frame"
    /\ \E i \in DOMAIN path_taken :
          /\ path_taken[i].path_start > 0
          /\ path_taken[i].num_segments - path_taken[i].path_start > 0
          /\ path_taken[i].num_segments = MAX_LINE_PATH_SEGMENTS

(***************************************************************************)
(* Frame effects of the events                                             *)
(***************************************************************************)
OrbitPressStep ==
    EventStep /\ last_op'.op = "key" /\ last_op'.key = "O" /\ last_op'.action = "PRESS"

\* C26: each event changes only what it names.  ToggleMode and CycleTarget
\* leave zoom_level and the stored camera distance unchanged; a permitted
\* Zoom leaves mode and target unchanged; the orbit-display key changes only
\* the display flag, which no other event changes; trails are recorded by
\* every frame whether or not the display is enabled; no event changes a
\* body's position or velocity or the physics accumulator.
C26_EventsChangeOnlyWhatTheyName ==
    [][/\ (ToggleModeStep \/ SpacePressStep) =>
              UNCHANGED <<zoom_level, focused_camera_distance>>
       /\ ScrollStep => UNCHANGED <<rendering_mode, camera_target>>
       /\ OrbitPressStep =>
              /\ enable_orbit_rendering' = ~enable_orbit_rendering
              /\ UNCHANGED <<rendering_mode, camera_target, zoom_level,
                             focused_camera_distance, path_taken, should_close>>
       /\ (EventStep /\ ~OrbitPressStep) => UNCHANGED enable_orbit_rendering
       /\ EventStep => UNCHANGED <<celestial_bodies, physics_accumulator>>
       /\ FrameStep =>
              /\ UNCHANGED enable_orbit_rendering
              /\ \E w \in {FrameWidth} :
                     \A i \in DOMAIN path_taken :
                         path_taken'[i] =
                             update_line_path(path_taken[i], rendered'[i].recorded, w)]_vars

\* the display switched on and off again in the to-scale mode, with a trail
\* that was recorded meanwhile still in place
C26_Witness ==
    /\ last_op.op = "key"
    /\ last_op.key = "O"
    /\ last_op.action = "PRESS"
    /\ ~enable_orbit_rendering
    /\ rendering_mode = RENDER_TO_SCALE
    /\ \E i \in DOMAIN path_taken : path_taken[i].num_segments > 0

(***************************************************************************)
(* Decimation on a non-empty trail                                         *)
(***************************************************************************)
\* the slot just before (start + count) % C, wrapping to C - 1
SlotBefore(lp) ==
    IF (lp.path_start + lp.num_segments) % MAX_LINE_PATH_SEGMENTS = 0
    THEN MAX_LINE_PATH_SEGMENTS - 1
    ELSE ((lp.path_start + lp.num_segments) % MAX_LINE_PATH_SEGMENTS) - 1

\* C22: on a non-empty trail a record call appends a segment exactly when
\* the render position is strictly farther than 2w from the first endpoint of
\* the most recently inserted segment; otherwise it leaves count, start and
\* every stored segment unchanged.
C22_DecimationOnNonEmptyTrail ==
    [][FrameStep =>
        \E w \in {FrameWidth} :
            \A i \in DOMAIN path_taken :
                path_taken[i].num_segments > 0 =>
                    LET lp   == path_taken[i]
                        pos  == rendered'[i].recorded
                        last == lp.lines[SlotBefore(lp)]
                        far  == Gt(Length(VSub(pos, last[1])), Add(w, w))
                    IN  /\ far =>
                              /\ Len(accepted'[i]) = Len(accepted[i]) + 1
                              /\ path_taken'[i].num_segments =
                                     Min2(lp.num_segments + 1, MAX_LINE_PATH_SEGMENTS)
                              /\ path_taken'[i].lines[(SlotBefore(lp) + 1)
                                                          % MAX_LINE_PATH_SEGMENTS] =
                                     NewLine(pos, last[1], last[2], w)
                        /\ ~far =>
                              /\ accepted'[i] = accepted[i]
                              /\ path_taken'[i].num_segments = lp.num_segments
                              /\ path_taken'[i].path_start = lp.path_start
                              /\ path_taken'[i].lines = lp.lines
                              /\ Linearized(path_taken'[i]) = Linearized(lp)]_vars

\* a frame has recorded into a trail that holds a segment and has left it
\* as it was, although the body is no longer where that segment was stored
C22_Witness ==
    /\ last_op.op = "frame"
    /\ num_frames > 2
    /\ \E j \in DOMAIN path_taken :
          /\ path_taken[j].num_segments > 0
          /\ Len(accepted[j]) = path_taken[j].num_segments
          /\ ~HasNaN(rendered[j].recorded)
          /\ Length(VSub(rendered[j].recorded,
                         Midpoint(path_taken[j].lines[SlotBefore(path_taken[j])]))) > 2

Separation(cb) == Length(VSub(cb[1].position, cb[0].position))

\* fixed steps taken since the program started
StepsTaken == (last_time - physics_accumulator) \div physics_step

=============================================================================
